---- MODULE Spec2Model ----
(***************************************************************************)
(* Model of TP_reportes_diarios.py: the daily sales report.  One run is    *)
(* one process: DailySalesReport() loads the workbook from disk, and       *)
(* generate_report() fetches the sales, looks the rate up, appends one     *)
(* sheet, saves the workbook and mails the file.  The workbook file on     *)
(* disk is the only state that survives a run.                             *)
(***************************************************************************)
EXTENDS Integers, Sequences, FiniteSets, TLC

\* ---------------------------------------------------------------- bounds
MaxRuns == 3     \* process invocations in one behaviour
MaxSales == 3    \* longest sales list the backend returns

\* ---------------------------------------------------------------- inputs
RateValues == {1000}           \* value_avg values of the quote service

\* The amount of the i-th sale of a day: neighbouring sales differ.
Amount(i) == IF i % 2 = 1 THEN 100 ELSE 250

\* A sale record of the backend's JSON array (client, products, amount, date).
Sale(a, d) == [client |-> "A", products |-> "X", amount |-> a, date |-> d]

\* The lists response.json()['sales'] may hold on day d (the empty list included).
SalesLists(d) ==
    { [i \in 1..n |-> Sale(Amount(i), d)] : n \in 0..MaxSales }

\* The rate: a number, or Python's None.
Rate(v) == [present |-> TRUE, value |-> v]
None == [present |-> FALSE, value |-> 0]
Rates == {Rate(v) : v \in RateValues}

\* str() of the rate inside an f-string: the digits, or the text None.
PyStr(r) == IF r.present THEN ToString(r.value) ELSE "None"

\* datetime.now().strftime("%Y-%m-%d") on day d.
strftime(d) == "2024-01-0" \o ToString(d)

\* ----------------------------------------------------------------- cells
\* A cell value: a string, a number, or a formula text kept by its parts.
\*   mul: "=<col><row>*<arg>"   div: "=<col><row>/<arg>"
\*   sum: "=SUM(<col><row>:<col><last>)"
Str(s) == [kind |-> "str", s |-> s, n |-> 0, col |-> "", row |-> 0, last |-> 0, arg |-> ""]
Num(v) == [kind |-> "num", s |-> "", n |-> v, col |-> "", row |-> 0, last |-> 0, arg |-> ""]
Mul(c, r, a) == [kind |-> "mul", s |-> "", n |-> 0, col |-> c, row |-> r, last |-> 0, arg |-> a]
Div(c, r, a) == [kind |-> "div", s |-> "", n |-> 0, col |-> c, row |-> r, last |-> 0, arg |-> a]
Sum(c, r, l) == [kind |-> "sum", s |-> "", n |-> 0, col |-> c, row |-> r, last |-> l, arg |-> ""]

\* The text the f-strings of the source produce for a formula cell.
FormulaText(c) ==
    CASE c.kind = "mul" -> "=" \o c.col \o ToString(c.row) \o "*" \o c.arg
      [] c.kind = "div" -> "=" \o c.col \o ToString(c.row) \o "/" \o c.arg
      [] c.kind = "sum" -> "=SUM(" \o c.col \o ToString(c.row) \o ":"
                               \o c.col \o ToString(c.last) \o ")"
      [] OTHER -> c.s

\* Column letters of the seven columns.
ColA == 1
ColB == 2
ColC == 3
ColD == 4
ColE == 5
ColF == 6
ColG == 7

\* ------------------------------------------------------------ worksheets
\* A worksheet: its title, its rows of cells, and the rows with a thick border.
\* A title is the date text plus the counter openpyxl appends on a collision
\* (n = 0: no counter).
Title(d, k) == [date |-> strftime(d), n |-> k]

HeaderRow ==
    << Str("Cliente"), Str("Productos"), Str("Importe USD"), Str("Fecha"),
       Str("Importe ARS"), Str("Promedio Diario"), Str("Acumulado") >>

\* worksheet.max_row: the last row holding a cell, 1 for a sheet without cells.
max_row(ws) == IF Len(ws.cells) = 0 THEN 1 ELSE Len(ws.cells)

\* ws.append(row): the row goes below the last one.
append(ws, row) == [ws EXCEPT !.cells = Append(@, row)]

\* workbook.sheetnames
sheetnames(wb) == [i \in 1..Len(wb) |-> wb[i].title]

Max(S) == CHOOSE x \in S : \A y \in S : y <= x

\* A cell openpyxl holds no value for.
Blank == [kind |-> "none", s |-> "", n |-> 0, col |-> "", row |-> 0, last |-> 0, arg |-> ""]

BlankRow == [c \in 1..7 |-> Blank]

\* worksheet["<col><row>"] = value; rows up to the written one come to exist.
SetCell(ws, r, c, v) ==
    LET padded == [i \in 1..Max({r, Len(ws.cells)}) |->
                      IF i <= Len(ws.cells) THEN ws.cells[i] ELSE BlankRow]
    IN  [ws EXCEPT !.cells = [padded EXCEPT ![r][c] = v]]

\* A variant that hands the requested title back whether or not it is in use.
avoid_duplicate_name_Keep(names, value) == [date |-> value, n |-> 0]

\* openpyxl's avoid_duplicate_name, as Workbook.create_sheet applies it: a
\* title already in use gets the next counter after the highest one in use.
avoid_duplicate_name(names, value) ==
    LET same   == {i \in 1..Len(names) : names[i].date = value}
        match  == {i \in same : names[i].n = 0}
        counts == {names[i].n : i \in {j \in same : names[j].n > 0}}
        highest == IF counts = {} THEN 0 ELSE Max(counts)
    IN  IF match = {} THEN [date |-> value, n |-> 0]
        ELSE [date |-> value, n |-> highest + 1]

\* self.workbook.create_sheet(sheet_name): the new, empty worksheet.
create_sheet(wb, sheet_name) ==
    [title |-> avoid_duplicate_name(sheetnames(wb), sheet_name),
     cells |-> << >>, border |-> {}]

\* A variant that counts every sheet, the new one included.
days_count_All(wb, ws) == Len(wb)

\* days_count of _calculate_financials: the sheets of the workbook whose name
\* is not the new worksheet's title.
days_count(wb, ws) ==
    Cardinality({i \in 1..Len(wb) : wb[i].title # ws.title})

\* A variant whose total stops one row short of the last populated row.
_calculate_financials_Short(wb, ws) ==
    LET dc       == days_count(wb, ws)
        last_row == max_row(ws) - 1
        w1 == SetCell(ws, 2, ColF, Div("E", 2, ToString(dc)))
        w2 == SetCell(w1, 2, ColG, Sum("E", 2, last_row))
    IN  [w2 EXCEPT !.border = 2..max_row(w2)]

\* _calculate_financials(worksheet, usd_rate), wb being the workbook that
\* already holds the worksheet.
_calculate_financials(wb, ws) ==
    LET dc       == days_count(wb, ws)
        last_row == max_row(ws)
        w1 == SetCell(ws, 2, ColF, Div("E", 2, ToString(dc)))
        w2 == SetCell(w1, 2, ColG, Sum("E", 2, last_row))
    IN  [w2 EXCEPT !.border = 2..max_row(w2)]

\* The row add_daily_sheet appends for one sale; the formula takes
\* ws.max_row as it is before the row is appended.
SaleRow(ws, sale, usd_rate) ==
    << Str(sale.client), Str(sale.products), Num(sale.amount), Str(sale.date),
       Mul("C", max_row(ws), PyStr(usd_rate)), Str(""), Str("") >>

\* for sale in data: ws.append([...])
RECURSIVE AppendSales(_, _, _, _)
AppendSales(ws, data, i, usd_rate) ==
    IF i > Len(data) THEN ws
    ELSE AppendSales(append(ws, SaleRow(ws, data[i], usd_rate)), data, i + 1, usd_rate)

\* add_daily_sheet(data, usd_rate) on day d: the workbook with the new sheet.
add_daily_sheet(wb, data, usd_rate, d) ==
    LET ws0 == create_sheet(wb, strftime(d))
        wb1 == Append(wb, ws0)
        ws1 == append(ws0, HeaderRow)
        ws2 == AppendSales(ws1, data, 1, usd_rate)
        ws3 == _calculate_financials(wb1, ws2)
    IN  Append(wb, ws3)

\* ------------------------------------------------------------- the file
\* The workbook file: absent, or the sheets the last save wrote.
NoFile == [exists |-> FALSE, sheets |-> << >>]

\* SalesReportExcel.__init__: the file's sheets, or a new workbook whose
\* default sheet is removed when the file is not found.
load_workbook(file) == IF file.exists THEN file.sheets ELSE << >>

\* workbook.save(file_path): the file holds every sheet of the workbook.
save(wb) == [exists |-> TRUE, sheets |-> wb]

\* self.excel.file_path as DailySalesReport.__init__ sets it: a str.
file_path == [type |-> "str", value |-> "/reports/daily_sales.xlsx"]

\* attachment_path.name: only a path object has the attribute, a str has not.
HasNameAttr(p) == p.type = "Path"

\* ------------------------------------------------------------- the state
VARIABLES
    pc,          \* where the current run stands
    day,         \* the calendar day of the current run
    runs,        \* runs started so far
    sales_data,  \* generate_report's sales_data
    usd_rate,    \* generate_report's usd_rate
    workbook,    \* self.excel.workbook: the sheets in memory
    loaded,      \* the sheets __init__ loaded at the start of the run
    disk,        \* the workbook file at file_path
    mailbox,     \* the mails the SMTP server accepted, over all runs
    err,         \* the call whose exception ended the run, "" if none
    trace        \* the calls and log records of the current run, in order

vars == << pc, day, runs, sales_data, usd_rate, workbook, loaded, disk,
           mailbox, err, trace >>

\* The state after DailySalesReport() on the first day: no file yet.
Init ==
    /\ pc = "fetch_sales"
    /\ day = 1
    /\ runs = 1
    /\ sales_data = << >>
    /\ usd_rate = None
    /\ workbook = load_workbook(NoFile)
    /\ loaded = load_workbook(NoFile)
    /\ disk = NoFile
    /\ mailbox = << >>
    /\ err = ""
    /\ trace = << >>

\* The record generate_report's handler logs before it re-raises.
ErrorRecord == "logging.error: Error generando reporte"

\* The call raises at `from`: except Exception as e: logging.error(...); raise
Raise(call, from) ==
    /\ pc' = "error"
    /\ err' = from
    /\ trace' = trace \o << call, ErrorRecord, "raise" >>

\* sales_data = self.odoo.get_daily_sales(today), the request answered.
GetDailySales ==
    /\ pc = "fetch_sales"
    /\ \E s \in SalesLists(day) : sales_data' = s
    /\ pc' = "fetch_rate"
    /\ trace' = Append(trace, "get_daily_sales")
    /\ UNCHANGED << day, runs, usd_rate, workbook, loaded, disk, mailbox, err >>

\* A variant that swallows the failure and goes on with an empty list.
GetDailySalesRaises_Swallowed ==
    /\ pc = "fetch_sales"
    /\ sales_data' = << >>
    /\ err' = "get_daily_sales"
    /\ pc' = "fetch_rate"
    /\ trace' = Append(trace, "get_daily_sales")
    /\ UNCHANGED << day, runs, usd_rate, workbook, loaded, disk, mailbox >>

\* get_daily_sales raises (transport or JSON failure): nothing catches it
\* before generate_report's handler.
GetDailySalesRaises ==
    /\ pc = "fetch_sales"
    /\ Raise("get_daily_sales", "get_daily_sales")
    /\ UNCHANGED << day, runs, sales_data, usd_rate, workbook, loaded, disk, mailbox >>

\* A variant without the try/except: a failed lookup raises to the caller.
GetHistoricalRate_Raising ==
    /\ pc = "fetch_rate"
    /\ \E r \in Rates \cup {None} :
          IF r.present
          THEN /\ usd_rate' = r
               /\ trace' = Append(trace, "get_historical_rate")
               /\ pc' = "check"
               /\ err' = err
          ELSE /\ usd_rate' = usd_rate
               /\ Raise("get_historical_rate", "get_historical_rate")
    /\ UNCHANGED << day, runs, sales_data, workbook, loaded, disk, mailbox >>

\* usd_rate = self.dollar_api.get_historical_rate(yesterday): the value, or
\* None with an error record when the request or the parsing fails.
GetHistoricalRate ==
    /\ pc = "fetch_rate"
    /\ \E r \in Rates \cup {None} :
          /\ usd_rate' = r
          /\ trace' = IF r.present
                         THEN Append(trace, "get_historical_rate")
                         ELSE trace \o << "get_historical_rate",
                                          "logging.error: Error API Dolar" >>
    /\ pc' = "check"
    /\ UNCHANGED << day, runs, sales_data, workbook, loaded, disk, mailbox, err >>

\* A variant without the return: the empty list is rendered like any other.
NoSales_Rendered ==
    /\ pc = "check"
    /\ Len(sales_data) = 0
    /\ workbook' = add_daily_sheet(workbook, sales_data, usd_rate, day)
    /\ pc' = "save"
    /\ trace' = trace \o << "logging.warning: No hay ventas", "add_daily_sheet" >>
    /\ UNCHANGED << day, runs, sales_data, usd_rate, loaded, disk, mailbox, err >>

\* if not sales_data: logging.warning(...); return
NoSales ==
    /\ pc = "check"
    /\ Len(sales_data) = 0
    /\ pc' = "done"
    /\ trace' = Append(trace, "logging.warning: No hay ventas")
    /\ UNCHANGED << day, runs, sales_data, usd_rate, workbook, loaded, disk,
                    mailbox, err >>

\* self.excel.add_daily_sheet(sales_data, usd_rate)
AddDailySheet ==
    /\ pc = "check"
    /\ Len(sales_data) > 0
    /\ workbook' = add_daily_sheet(workbook, sales_data, usd_rate, day)
    /\ pc' = "save"
    /\ trace' = Append(trace, "add_daily_sheet")
    /\ UNCHANGED << day, runs, sales_data, usd_rate, loaded, disk, mailbox, err >>

\* self.excel.save(), the file written.
Save ==
    /\ pc = "save"
    /\ disk' = save(workbook)
    /\ pc' = "send"
    /\ trace' = Append(trace, "save")
    /\ UNCHANGED << day, runs, sales_data, usd_rate, workbook, loaded, mailbox, err >>

\* A variant that ignores the failed save and goes on to the delivery.
SaveRaises_Ignored ==
    /\ pc = "save"
    /\ pc' = "send"
    /\ trace' = Append(trace, "save")
    /\ UNCHANGED << day, runs, sales_data, usd_rate, workbook, loaded, disk,
                    mailbox, err >>

\* self.excel.save() raises (the file cannot be opened for writing).
SaveRaises ==
    /\ pc = "save"
    /\ Raise("save", "save")
    /\ UNCHANGED << day, runs, sales_data, usd_rate, workbook, loaded, disk, mailbox >>

\* self.notifier.send_report('finanzas@empresa.com', self.excel.file_path):
\* the file is read, the attachment header takes attachment_path.name, and
\* the SMTP session sends the message.
SendReport ==
    /\ pc = "send"
    /\ \E readOk \in BOOLEAN, smtpOk \in BOOLEAN :
          IF ~readOk THEN
              /\ Raise("send_report", "open")
              /\ UNCHANGED mailbox
          ELSE IF ~HasNameAttr(file_path) THEN
              /\ Raise("send_report", "attachment_path.name")
              /\ UNCHANGED mailbox
          ELSE IF ~smtpOk THEN
              /\ Raise("send_report", "smtp")
              /\ UNCHANGED mailbox
          ELSE
              /\ mailbox' = Append(mailbox, [to |-> "finanzas@empresa.com",
                                             attachment |-> disk.sheets])
              /\ pc' = "done"
              /\ trace' = Append(trace, "send_report")
              /\ UNCHANGED err
    /\ UNCHANGED << day, runs, sales_data, usd_rate, workbook, loaded, disk >>

\* The process has ended; the program is started again, the same day or a
\* later one: DailySalesReport() loads the workbook from the file.
NewRun ==
    /\ pc \in {"done", "error"}
    /\ runs < MaxRuns
    /\ runs' = runs + 1
    /\ \E d \in {day, day + 1} : day' = d
    /\ workbook' = load_workbook(disk)
    /\ loaded' = load_workbook(disk)
    /\ sales_data' = << >>
    /\ usd_rate' = None
    /\ err' = ""
    /\ trace' = << >>
    /\ pc' = "fetch_sales"
    /\ UNCHANGED << disk, mailbox >>

Next ==
    \/ GetDailySales
    \/ GetDailySalesRaises
    \/ GetHistoricalRate
    \/ NoSales
    \/ AddDailySheet
    \/ Save
    \/ SaveRaises
    \/ SendReport
    \/ NewRun

Spec == Init /\ [][Next]_vars

TypeOK ==
    /\ pc \in {"fetch_sales", "fetch_rate", "check", "save", "send", "done", "error"}
    /\ day \in 1..runs
    /\ runs \in 1..MaxRuns

\* ------------------------------------------------------------ vocabulary
\* The call was made in the current run.
Called(call) == \E i \in 1..Len(trace) : trace[i] = call

\* The current run has added its sheet: it is the last one of the workbook.
Rendered == Called("add_daily_sheet")

NewSheet == workbook[Len(workbook)]

\* The file as it was when the current run loaded it (a saved file holds at
\* least one sheet, so an empty load means there was no file).
FileAtStart == IF Len(loaded) = 0 THEN NoFile ELSE save(loaded)

\* The cells a formula reads.
RefCells(c) ==
    CASE c.kind \in {"mul", "div"} -> { << c.col, c.row >> }
      [] c.kind = "sum" -> { << c.col, k >> : k \in c.row..c.last }
      [] OTHER -> {}

IsPrefix(s, t) == Len(s) <= Len(t) /\ \A i \in 1..Len(s) : s[i] = t[i]

\* Every sheet the program has produced, in memory or in the file.
AllSheets ==
    {workbook[i] : i \in 1..Len(workbook)} \cup {disk.sheets[i] : i \in 1..Len(disk.sheets)}

\* ---------------------------------------------------------------- claims

\* C1: with a present rate R, the i-th sale is in row i+1 of the new sheet and
\* column E of that row holds the formula =C<i+1>*R, the amount cell of the
\* same row times R.
C1_RowFormulaUsesOwnRow ==
    (Rendered /\ usd_rate.present) =>
        /\ Len(NewSheet.cells) = Len(sales_data) + 1
        /\ \A i \in 1..Len(sales_data) :
              /\ NewSheet.cells[i + 1][ColC] = Num(sales_data[i].amount)
              /\ NewSheet.cells[i + 1][ColE] = Mul("C", i + 1, PyStr(usd_rate))

\* C2: the numerator of the Daily Average formula in F2 reads the whole
\* local-currency column of the sheet, rows 2..n+1, and the denominator is
\* the number of sheets present before the sheet was added.
C2_AverageOverAllRows ==
    Rendered =>
        LET f2 == NewSheet.cells[2][ColF]
        IN  /\ f2.kind = "div"
            /\ RefCells(f2) = { << "E", k >> : k \in 2..(Len(sales_data) + 1) }
            /\ f2.arg = ToString(Len(loaded))

\* C3: G2 of every sheet is =SUM(E2:E<n+1>), n the number of data rows of that
\* sheet, and the G cells of rows 3..n+1 are blank; the sheet of the current
\* run has one data row per sale.
C3_CumulativeTotalOwnRows ==
    /\ \A ws \in AllSheets :
          /\ Len(ws.cells) >= 2
          /\ ws.cells[2][ColG] = Sum("E", 2, Len(ws.cells))
          /\ RefCells(ws.cells[2][ColG]) = { << "E", k >> : k \in 2..Len(ws.cells) }
          /\ \A k \in 3..Len(ws.cells) : ws.cells[k][ColG] = Str("")
    /\ Rendered => Len(NewSheet.cells) = Len(sales_data) + 1

C3_Witness ==
    /\ Rendered
    /\ Len(sales_data) >= 2
    /\ NewSheet.cells[2][ColG] = Sum("E", 2, Len(sales_data) + 1)

\* C4: a run whose sales fetch returned the empty list ends without error and
\* without add_daily_sheet, save or send_report: workbook, file and mailbox
\* are as they were at the start of the run, whatever the rate lookup gave.
C4_NoSalesNoEffect ==
    (Called("get_daily_sales") /\ err # "get_daily_sales" /\ Len(sales_data) = 0) =>
        /\ pc \in {"fetch_rate", "check", "done"}
        /\ err = ""
        /\ ~Called("add_daily_sheet") /\ ~Called("save") /\ ~Called("send_report")
        /\ workbook = loaded
        /\ disk = FileAtStart
        /\ pc = "done" => trace[Len(trace)] = "logging.warning: No hay ventas"

C4_Witness ==
    /\ pc = "done"
    /\ Len(sales_data) = 0
    /\ Called("get_daily_sales")
    /\ ~usd_rate.present
    /\ Len(loaded) > 0
    /\ disk = save(loaded)

\* C5: a failed rate lookup raises nothing: it is logged and usd_rate is None.
\* With a non-empty sales list the run then adds exactly one sheet, one data
\* row per sale, each row formula carrying None as its multiplier, and the
\* save that follows writes that workbook to the file (the run can still end
\* in an error of the save or of the delivery, never of the lookup).
C5_RateFailureTolerated ==
    /\ err # "get_historical_rate"
    /\ (Called("get_historical_rate") /\ ~usd_rate.present) =>
          /\ Called("logging.error: Error API Dolar")
          /\ Len(sales_data) > 0 =>
                /\ pc \in {"check", "save", "send", "error"}
                /\ pc = "error" => err \in {"save", "open", "attachment_path.name", "smtp"}
                /\ pc # "check" =>
                      /\ Rendered
                      /\ Len(workbook) = Len(loaded) + 1
                      /\ IsPrefix(loaded, workbook)
                      /\ Len(NewSheet.cells) = Len(sales_data) + 1
                      /\ \A k \in 2..Len(NewSheet.cells) :
                            /\ NewSheet.cells[k][ColE].kind = "mul"
                            /\ NewSheet.cells[k][ColE].arg = "None"
                /\ (pc = "send" \/ err \in {"open", "attachment_path.name", "smtp"}) =>
                      disk = save(workbook)

C5_Witness ==
    /\ Called("get_historical_rate")
    /\ ~usd_rate.present
    /\ Len(sales_data) >= 2
    /\ pc = "send"
    /\ disk = save(workbook)
    /\ Len(workbook) = Len(loaded) + 1
    /\ NewSheet.cells[2][ColE].arg = "None"

\* C6: when the sales fetch raises, the handler logs the error and re-raises
\* it; get_daily_sales was called once, the rate lookup is not made, no sheet
\* is added, nothing is saved, nothing is sent: workbook and file are as
\* they were at the start of the run.
C6_SalesFetchFatal ==
    /\ Called("get_daily_sales") => trace[1] = "get_daily_sales"
    /\ err = "get_daily_sales" =>
          /\ pc = "error"
          /\ trace = << "get_daily_sales", ErrorRecord, "raise" >>
          /\ workbook = loaded
          /\ disk = FileAtStart

C6_Witness ==
    /\ err = "get_daily_sales"
    /\ pc = "error"
    /\ Len(loaded) > 0
    /\ disk = save(loaded)

\* C7: a run with a non-empty sales list whose save succeeded ends in an error
\* only when the mail transport failed (file read or SMTP session);
\* send_report raises no error of its own, so without a transport failure the
\* run ends with the mail sent.
C7_DeliversUnlessTransportFails ==
    /\ (Called("send_report") /\ pc = "error") => err \in {"open", "smtp"}
    /\ (Called("send_report") /\ pc = "done") =>
          /\ trace = << "get_daily_sales", "get_historical_rate",
                         "add_daily_sheet", "save", "send_report" >>
                \/ trace = << "get_daily_sales", "get_historical_rate",
                              "logging.error: Error API Dolar",
                              "add_daily_sheet", "save", "send_report" >>
          /\ Len(mailbox) > 0
          /\ mailbox[Len(mailbox)].attachment = disk.sheets

\* C8: the denominator of the Daily Average formula of a sheet is the number
\* of sheets the workbook held before the sheet was created: 0 for the first
\* sheet, 1 for the second, k for the sheet created after k runs left their
\* sheet in the file; the new sheet does not count itself, the same day or not.
C8_DenominatorCountsPriorSheets ==
    /\ \A i \in 1..Len(workbook) :
          workbook[i].cells[2][ColF] = Div("E", 2, ToString(i - 1))
    /\ \A i \in 1..Len(disk.sheets) :
          disk.sheets[i].cells[2][ColF] = Div("E", 2, ToString(i - 1))
    /\ Rendered =>
          /\ Len(workbook) = Len(loaded) + 1
          /\ NewSheet.cells[2][ColF].arg = ToString(Len(loaded))

C8_Witness ==
    /\ Rendered
    /\ Len(loaded) = 2
    /\ loaded[2].title.date = NewSheet.title.date
    /\ NewSheet.cells[2][ColF].arg = "2"
    /\ workbook[1].cells[2][ColF].arg = "0"

\* C9: send_report is called only after save was called and returned: the
\* file then holds the workbook with the new sheet.  When the delivery
\* fails, the error is logged and re-raised and the file keeps the new sheet;
\* no mail has been sent.
C9_SendOnlyAfterSave ==
    /\ Called("send_report") =>
          /\ \E i, j \in 1..Len(trace) :
                i < j /\ trace[i] = "save" /\ trace[j] = "send_report"
          /\ err # "save"
          /\ disk = save(workbook)
          /\ Len(disk.sheets) = Len(loaded) + 1
    /\ pc = "send" => disk = save(workbook)
    /\ err \in {"open", "attachment_path.name", "smtp"} =>
          /\ pc = "error"
          /\ SubSeq(trace, Len(trace) - 2, Len(trace)) =
                << "send_report", ErrorRecord, "raise" >>
          /\ disk = save(workbook)
          /\ IsPrefix(loaded, disk.sheets)
          /\ Len(disk.sheets) = Len(loaded) + 1
          /\ mailbox = << >>

C9_Witness ==
    /\ pc = "error"
    /\ err = "attachment_path.name"
    /\ Len(loaded) >= 1
    /\ Len(disk.sheets) = Len(loaded) + 1
    /\ disk.sheets[Len(disk.sheets)] = NewSheet

\* Sheet titles are pairwise distinct.
TitlesDistinct(wb) ==
    \A i, j \in 1..Len(wb) : i # j => wb[i].title # wb[j].title

\* A step keeps every sheet of the file, in order and unchanged, and adds at
\* most one; within a run the workbook in memory does the same, and the step
\* that renders adds exactly one sheet.
AppendOnlyStep ==
    /\ IsPrefix(disk.sheets, disk'.sheets)
    /\ Len(disk'.sheets) <= Len(disk.sheets) + 1
    /\ disk.exists => disk'.exists
    /\ pc' # "fetch_sales" =>
          /\ IsPrefix(workbook, workbook')
          /\ Len(workbook') = IF pc = "check" /\ pc' = "save"
                                 THEN Len(workbook) + 1 ELSE Len(workbook)
    /\ pc' = "fetch_sales" => workbook' = disk.sheets

\* C10: the sheet names of the workbook and of the file are pairwise distinct
\* after any sequence of runs, two runs on the same date included, and the
\* file is append-only: a rendering run adds exactly one sheet, and the
\* sheets that were there keep their names, order and cells.
C10_DistinctNamesAppendOnly ==
    /\ [](TitlesDistinct(workbook) /\ TitlesDistinct(disk.sheets))
    /\ [][AppendOnlyStep]_vars

C10_Witness ==
    /\ Len(disk.sheets) >= 3
    /\ disk.sheets[1].title.date = disk.sheets[2].title.date
    /\ disk.sheets[2].title.date = disk.sheets[3].title.date
    /\ disk.sheets[3].title.n = 2

====
